---- MODULE Spec2Model ----
(***************************************************************************)
(* Model of the schemix query-construction engine: the ParameterCollector  *)
(* (dialects.py), the SELECT builder (query/select.py) and the INSERT      *)
(* builder (query/insert.py), with the connection collaborator reduced to  *)
(* the outcome of its execute call; the schema generator (schema.py) over  *)
(* fluently configured columns (base.py) and the registration of table     *)
(* declarations (table.py).                                                *)
(*                                                                         *)
(* SQL text is modelled as the sequence of the pieces the code's f-strings *)
(* concatenate (keywords, names, placeholders, separators); Python's None  *)
(* is the empty sequence <<>> and a set slot is the one-element sequence   *)
(* <<v>>; a raised exception is a result record whose kind is the          *)
(* exception class.                                                        *)
(***************************************************************************)
EXTENDS Integers, Sequences, FiniteSets, TLC

\* ------------------------------------------------------------------ bounds

\* add calls made on a stand-alone collector
MaxAdds == 3
\* configuration calls (where, having, ..., joins) made on one select builder
MaxCalls == 3
\* join clauses appended to one select builder
MaxJoins == 2
\* get_sql calls observed between two configuration calls
MaxRenders == 2
\* rows of a batch handed to values()
MaxRows == 3
\* table declarations registered in one behaviour
MaxTables == 2

\* -------------------------------------------------------------------- state

VARIABLES
    obj,         \* the object this behaviour drives: "collector", "select", "insert"
    dialect,     \* the collector's dialect; for a builder, database.connection.dialect
    params,      \* ParameterCollector.params of the stand-alone collector
    added,       \* its add calls so far: <<value, returned placeholder>>
    columns,     \* SelectBase.columns: ordered mapping alias -> column or expression
    table,       \* the builder's table
    config,      \* SelectBase.config
    ins_config,  \* InsertBuilder.config.values
    caller,      \* the object the caller handed to values(): what it held at the
                 \* call, and whether the caller has changed it since
    calls,       \* configuration calls made on the select builder
    lastcall,    \* the method called last on the collector or builder, and its argument
    returned,    \* results of the get_sql calls since the last other call
    executed,    \* if execute was the last call: its result and the calls it made
                 \* on the connection
    tabledef,    \* BaseTable._columns of the table handed to the schema generator:
                 \* its column objects in declaration order
    generated,   \* if a schema function was called last: the call and its result
    registry,    \* the table classes TableMeta.__new__ created, oldest first
    instances,   \* the column objects a declaration body can name: id -> object
    probe        \* if a function of the library was applied last on its own: the
                 \* call and what it returned or raised

vars == <<obj, dialect, params, added, columns, table, config, ins_config, caller, calls,
          lastcall, returned, executed, tabledef, generated, registry, instances,
          probe>>

\* the state of the schema generator and of the table registry, and the
\* function applied on its own
catalog_vars == <<tabledef, generated, registry, instances, probe>>

\* the state of the collector and of the query builders
builder_vars == <<params, added, columns, config, ins_config, caller, returned, executed>>

\* ------------------------------------------------------------- primitives

None == <<>>

Some(x) == <<x>>

RECURSIVE Flatten(_)
\* concatenation of a sequence of sequences
Flatten(ss) == IF ss = <<>> THEN <<>> ELSE Head(ss) \o Flatten(Tail(ss))

RECURSIVE JoinWith(_, _)
\* Python's sep.join(parts) on piece sequences: parts is a sequence of piece
\* sequences, sep a piece
JoinWith(sep, parts) ==
    IF parts = <<>> THEN <<>>
    ELSE IF Len(parts) = 1 THEN parts[1]
    ELSE parts[1] \o <<sep>> \o JoinWith(sep, Tail(parts))

\* ---------------------------------------------------------------- dialects

Dialect == {"sqlite", "postgresql"}

\* the mutation of get_placeholder that numbers from the 0-based index
get_placeholder_zero_based(d, index) ==
    IF d = "sqlite" THEN "?"
    ELSE IF d = "postgresql" THEN "$" \o ToString(index)
    ELSE "DialectNotSupportedError"

\* get_placeholder(dialect, index); the final raise is the fall-through for a
\* value outside the enumeration
get_placeholder(d, index) ==
    IF d = "sqlite" THEN "?"
    ELSE IF d = "postgresql" THEN "$" \o ToString(index + 1)
    ELSE "DialectNotSupportedError"

\* a collector kept between renders instead of built by each: it starts
\* from the parameters the previous render left
ParameterCollectorShared(d) ==
    IF returned = <<>> THEN <<>> ELSE returned[Len(returned)].params

\* ParameterCollector.__init__: the parameter list of a new collector
ParameterCollector(d) == <<>>

\* ParameterCollector.add on the parameter list ps: the list after the
\* append, and the placeholder returned
add(ps, d, param) ==
    LET after == Append(ps, param)
    IN  [params |-> after, ret |-> get_placeholder(d, Len(after) - 1)]

\* ParameterCollector.parameters: a copy of the list
parameters(ps) == ps

\* ------------------------------------------------------------ column model

\* literal values bound as parameters; "None" is Python's None
Values == {"None", "v1", "v2"}

\* A column object.  hier is the class hierarchy it was built from:
\* "columns" for schemix.columns.ColumnType (the classes schemix/__init__.py
\* exports; they define no serialize), "base" for schemix.base.ColumnType
\* (schemix.sqlite and schemix.postgres; ser names their serialization mixin).
Column(name, tbl, hier, ser) ==
    [t |-> "col", col_name |-> name, table |-> tbl, hier |-> hier, ser |-> ser]

UsersId == Column("id", Some("users"), "columns", "none")

UsersAge == Column("age", Some("users"), "columns", "none")

PostsTitle == Column("title", Some("posts"), "base", "passthrough")

PostsMeta == Column("meta", Some("posts"), "base", "json")

EventsTitle == Column("title", Some("events"), "columns", "none")

EventsMeta == Column("meta", Some("events"), "columns", "none")

\* ColumnType._get_qualified_name
_get_qualified_name(c) ==
    IF c.table # None THEN c.table[1] \o "." \o c.col_name ELSE c.col_name

\* isinstance(x, ColumnType) as select.py evaluates it: ColumnType there is
\* schemix.columns.ColumnType, which the schemix.base classes do not extend
IsColumnsColumnType(x) == x.t = "col" /\ x.hier = "columns"

\* The registered tables: BaseTable._columns, attribute name -> column in
\* declaration order, as a sequence of <<attribute, column>> pairs
TableColumns(tbl) ==
    CASE tbl = "users" -> << <<"id", UsersId>>, <<"age", UsersAge>> >>
      [] tbl = "posts" -> << <<"title", PostsTitle>>, <<"meta", PostsMeta>> >>
      [] tbl = "events" -> << <<"title", EventsTitle>>, <<"meta", EventsMeta>> >>

\* BaseTable.get_table_name of a registered table
get_table_name(tbl) == tbl

\* the keys of an ordered mapping (a sequence of <<key, value>> pairs)
Keys(m) == {m[i][1] : i \in 1..Len(m)}

\* `columns = sorted(values_list[0].keys())` for `list(values_list[0].keys())`:
\* the keys in alphabetical order
KeyListSorted(m) ==
    SelectSeq(<<"meta", "nope", "title">>, LAMBDA k : \E i \in 1..Len(m) : m[i][1] = k)

\* the keys of an ordered mapping in insertion order
KeyList(m) == [i \in 1..Len(m) |-> m[i][1]]

\* m[k] for a key k of the ordered mapping m
Lookup(m, k) == LET i == CHOOSE j \in 1..Len(m) : m[j][1] = k IN m[i][2]

\* ------------------------------------------------------------- expressions

Lit(v) == [t |-> "lit", v |-> v]

\* BinaryExpression.__init__
BinaryExpression(left, operator, right) ==
    [t |-> "bin", left |-> left, operator |-> operator, right |-> right]

\* Users.age > "v1": one literal operand
AgeGt == BinaryExpression(UsersAge, ">", Lit("v1"))

\* Users.id == Posts.title: two column operands, no literal
IdEq == BinaryExpression(UsersId, "=", PostsTitle)

\* Users.age + "v2": a computed projection entry
AgePlus == BinaryExpression(UsersAge, "+", Lit("v2"))

\* FunctionExpression.__init__(function_name, *args)
FunctionExpression(function_name, args) ==
    [t |-> "fn", function_name |-> function_name, args |-> args]

IsSQLExpression(x) == x.t \in {"bin", "fn"}

\* What `x.to_sql(dialect, collector)` does at the call sites of
\* SelectBase.get_sql.  SQLExpression.to_sql is declared
\* to_sql(self, collector=None): the call passes two positional arguments and
\* Python raises TypeError before the body runs.  A schemix.base column has no
\* to_sql attribute at all: AttributeError.
to_sql_call(x) ==
    IF IsSQLExpression(x) THEN "TypeError" ELSE "AttributeError"

\* ------------------------------------------------------------------ results

\* a call that returned (sql, params)
Ok(sql, ps) == [kind |-> "ok", sql |-> sql, params |-> ps, msg |-> <<>>]

\* a call that raised the exception class kind; msg is str(e) as the
\* sequence of the pieces its f-string concatenates
Raise(kind, msg) == [kind |-> kind, sql |-> <<>>, params |-> <<>>, msg |-> msg]

\* QueryError.__init__ through SchemixError.__init__
QueryError(message) == Raise("QueryError", <<"Query Error: ">> \o message)

\* str(e) of the exception a to_sql_call raises on x
to_sql_message(x) ==
    IF IsSQLExpression(x)
    THEN <<"to_sql() takes from 1 to 2 positional arguments but 3 were given">>
    ELSE <<"object has no attribute 'to_sql'">>

\* ------------------------------------------------------ expression rendering

RECURSIVE expression_to_sql_right_first(_, _, _)
\* to_sql with `right_sql` computed before `left_sql` in BinaryExpression.to_sql
expression_to_sql_right_first(x, d, ps) ==
    IF x.t = "lit"
    THEN Ok(<<add(ps, d, x.v).ret>>, add(ps, d, x.v).params)
    ELSE IF x.t = "col"
    THEN Ok(<<_get_qualified_name(x)>>, ps)
    ELSE IF x.t = "bin"
    THEN LET r == expression_to_sql_right_first(x.right, d, ps)
             l == expression_to_sql_right_first(x.left, d, r.params)
         IN  Ok(<<"(">> \o l.sql \o <<" ", x.operator, " ">> \o r.sql \o <<")">>, l.params)
    ELSE IF x.args = <<>>
    THEN Ok(<<x.function_name, "()">>, ps)
    ELSE LET first == expression_to_sql_right_first(x.args[1], d, ps)
             rest == IF Len(x.args) = 1 THEN Ok(<<>>, first.params)
                     ELSE expression_to_sql_right_first(x.args[2], d, first.params)
         IN  Ok(<<x.function_name, "(">> \o first.sql
                \o (IF Len(x.args) = 1 THEN <<>> ELSE <<", ">> \o rest.sql)
                \o <<")">>, rest.params)

RECURSIVE expression_to_sql(_, _, _)
\* SQLExpression.to_sql(collector) of a node x on the collector's list ps,
\* with _operand_to_sql for each operand, left before right: a nested
\* expression recurses, a column (of either hierarchy, by _is_column_type)
\* gives its qualified name, anything else is added to the collector
expression_to_sql(x, d, ps) ==
    IF x.t = "lit"
    THEN Ok(<<add(ps, d, x.v).ret>>, add(ps, d, x.v).params)
    ELSE IF x.t = "col"
    THEN Ok(<<_get_qualified_name(x)>>, ps)
    ELSE IF x.t = "bin"
    THEN LET l == expression_to_sql(x.left, d, ps)
             r == expression_to_sql(x.right, d, l.params)
         IN  Ok(<<"(">> \o l.sql \o <<" ", x.operator, " ">> \o r.sql \o <<")">>, r.params)
    ELSE IF x.args = <<>>
    THEN Ok(<<x.function_name, "()">>, ps)
    ELSE LET first == expression_to_sql(x.args[1], d, ps)
             rest == IF Len(x.args) = 1 THEN Ok(<<>>, first.params)
                     ELSE expression_to_sql(x.args[2], d, first.params)
         IN  Ok(<<x.function_name, "(">> \o first.sql
                \o (IF Len(x.args) = 1 THEN <<>> ELSE <<", ">> \o rest.sql)
                \o <<")">>, rest.params)

\* the modules whose Integer class builds expressions
ColumnModules == {"postgres", "sqlite", "columns"}

\* Integer("age") of the module as the age column of the table users
IntegerAge(module) ==
    Column("age", Some("users"), IF module = "columns" THEN "columns" ELSE "base",
           IF module = "columns" THEN "none" ELSE "passthrough")

\* self ** other for the Integer class of the module.  sqlite.Integer has
\* SQLiteNumericOperatorMixin.__pow__; schemix.columns.Integer has the
\* __pow__ of its own NumericOperatorMixin; postgres.Integer is built on
\* base.NumericOperatorMixin, which defines no __pow__ (no class uses
\* PostgreSQLNumericOperatorMixin), so Python raises TypeError
__pow__(module, self, other) ==
    IF module = "sqlite" THEN Ok(<<FunctionExpression("power", <<self, other>>)>>, <<>>)
    ELSE IF module = "columns" THEN Ok(<<BinaryExpression(self, "^", other)>>, <<>>)
    ELSE Raise("TypeError", <<"unsupported operand type(s) for ** or pow(): 'Integer' and 'int'">>)

\* self.count_distinct(): CountOperatorMixin of base.py passes modifier= to
\* FunctionExpression.__init__(function_name, *args), that of columns.py
\* builds the function "COUNT DISTINCT"
count_distinct(module, self) ==
    IF module = "columns" THEN Ok(<<FunctionExpression("COUNT DISTINCT", <<self>>)>>, <<>>)
    ELSE Raise("TypeError",
               <<"FunctionExpression.__init__() got an unexpected keyword argument 'modifier'">>)

\* the expressions rendered on their own: a literal right of a column, two
\* columns, a literal left of a nested expression, None as a literal, and
\* functions of no, one and two arguments
Expressions ==
    { AgeGt, IdEq,
      BinaryExpression(Lit("v1"), "<", AgePlus),
      BinaryExpression(AgeGt, "AND", BinaryExpression(PostsTitle, "=", Lit("None"))),
      FunctionExpression("NOW", <<>>),
      FunctionExpression("COUNT", <<UsersId>>),
      FunctionExpression("COALESCE", <<UsersAge, Lit("v2")>>) }

\* ----------------------------------------------------------- select builder

JoinType == {"inner", "left", "right", "full", "cross"}

\* JoinClause(join_type, table, on)
JoinClause(join_type, tbl, on) == [join_type |-> join_type, table |-> tbl, on |-> on]

\* SelectConfig(): every slot None
SelectConfig ==
    [where |-> None, having |-> None, group_by |-> None, order_by |-> None,
     limit |-> None, offset |-> None, joins |-> None]

\* str.upper() of a join type
Upper(join_type) ==
    CASE join_type = "inner" -> "INNER"
      [] join_type = "left" -> "LEFT"
      [] join_type = "right" -> "RIGHT"
      [] join_type = "full" -> "FULL"
      [] join_type = "cross" -> "CROSS"

\* _create_join with `joins.insert(0, join_clause)` for `joins.append(join_clause)`
_create_join_prepend(cfg, join_type, tbl, on) ==
    LET joins == IF cfg.joins = None THEN <<>> ELSE cfg.joins[1]
    IN  [cfg EXCEPT !.joins = Some(<<JoinClause(join_type, tbl, on)>> \o joins)]

\* SelectBase._create_join
_create_join(cfg, join_type, tbl, on) ==
    LET joins == IF cfg.joins = None THEN <<>> ELSE cfg.joins[1]
    IN  [cfg EXCEPT !.joins = Some(Append(joins, JoinClause(join_type, tbl, on)))]

\* SelectBase.where
where(cfg, expression) == [cfg EXCEPT !.where = Some(expression)]

\* SelectBase.having
having(cfg, expression) == [cfg EXCEPT !.having = Some(expression)]

\* SelectBase.group_by(*columns): the slot holds list(columns)
group_by(cfg, cols) == [cfg EXCEPT !.group_by = Some(cols)]

\* SelectBase.order_by(*args): the slot holds the args tuple
order_by(cfg, args) == [cfg EXCEPT !.order_by = Some(args)]

\* SelectBase.limit
limit(cfg, n) == [cfg EXCEPT !.limit = Some(n)]

\* SelectBase.offset
offset(cfg, n) == [cfg EXCEPT !.offset = Some(n)]

\* `x.to_sql(dialect, collector)` at the call sites of SelectBase.get_sql, on the
\* collector's parameter list ps: it raises (see to_sql_call) before any
\* operand is rendered or registered
to_sql(x, d, ps) == Raise(to_sql_call(x), to_sql_message(x))

\* `x._get_qualified_name() if isinstance(x, ColumnType) else x.to_sql(dialect, collector)`
RenderItem(x, d, ps) ==
    IF IsColumnsColumnType(x) THEN Ok(<<_get_qualified_name(x)>>, ps) ELSE to_sql(x, d, ps)

RECURSIVE RenderItems(_, _, _)
\* the loop that renders a list of columns and expressions left to right:
\* sql holds one piece sequence per entry; the first raise ends the loop
RenderItems(items, d, ps) ==
    IF items = <<>> THEN Ok(<<>>, ps)
    ELSE LET h == RenderItem(Head(items), d, ps)
         IN  IF h.kind # "ok" THEN h
             ELSE LET rest == RenderItems(Tail(items), d, h.params)
                  IN  IF rest.kind # "ok" THEN rest
                      ELSE Ok(<<h.sql>> \o rest.sql, rest.params)

\* `sql += pieces` on the statement built so far
Emit(acc, pieces) ==
    IF acc.kind # "ok" THEN acc ELSE Ok(acc.sql \o pieces, acc.params)

\* `sql += f" KEYWORD {x.to_sql(dialect, collector)}"`
EmitExpression(acc, keyword, x, d) ==
    IF acc.kind # "ok" THEN acc
    ELSE LET r == to_sql(x, d, acc.params)
         IN  IF r.kind # "ok" THEN r ELSE Ok(acc.sql \o <<keyword>> \o r.sql, r.params)

\* one turn of the JOIN loop of get_sql
EmitJoin(acc, join, d) ==
    LET join_type == Upper(join.join_type)
        head == Emit(acc, <<join_type, "JOIN", get_table_name(join.table)>>)
    IN  IF join_type = "CROSS" THEN head
        ELSE IF join.on # None THEN EmitExpression(head, "ON", join.on[1], d)
        ELSE head

RECURSIVE EmitJoins(_, _, _)
\* the JOIN loop of get_sql, in list order
EmitJoins(acc, joins, d) ==
    IF joins = <<>> THEN acc
    ELSE EmitJoins(EmitJoin(acc, Head(joins), d), Tail(joins), d)

\* the projection list of get_sql: `<qualified name> AS <alias>` for a column,
\* `<expression> AS <alias>` otherwise
EmitProjection(r, cols, tbl) ==
    IF r.kind # "ok" THEN r
    ELSE Ok(<<"SELECT">>
              \o JoinWith(", ", [i \in 1..Len(cols) |-> r.sql[i] \o <<"AS", cols[i][1]>>])
              \o <<"FROM", get_table_name(tbl)>>,
            r.params)

\* the JOIN step of get_sql
EmitJoinClauses(acc, cfg, d) ==
    IF cfg.joins = None THEN acc ELSE EmitJoins(acc, cfg.joins[1], d)

\* the WHERE step of get_sql
EmitWhere(acc, cfg, d) ==
    IF cfg.where = None THEN acc ELSE EmitExpression(acc, "WHERE", cfg.where[1], d)

\* the GROUP BY step of get_sql
EmitGroupBy(acc, cfg) ==
    IF cfg.group_by = None THEN acc
    ELSE Emit(acc, <<"GROUP BY">> \o
                   JoinWith(", ", [i \in 1..Len(cfg.group_by[1]) |->
                                     <<_get_qualified_name(cfg.group_by[1][i])>>]))

\* the HAVING step of get_sql
EmitHaving(acc, cfg, d) ==
    IF cfg.having = None THEN acc ELSE EmitExpression(acc, "HAVING", cfg.having[1], d)

\* the rendered ORDER BY entries appended to the statement
EmitOrderList(acc, r) ==
    IF r.kind # "ok" THEN r
    ELSE Ok(acc.sql \o <<"ORDER BY">> \o JoinWith(", ", r.sql), r.params)

\* the ORDER BY step of get_sql
EmitOrderBy(acc, cfg, d) ==
    IF cfg.order_by = None \/ acc.kind # "ok" THEN acc
    ELSE EmitOrderList(acc, RenderItems(cfg.order_by[1], d, acc.params))

\* the LIMIT step of get_sql
EmitLimit(acc, cfg) ==
    IF cfg.limit = None THEN acc ELSE Emit(acc, <<"LIMIT", ToString(cfg.limit[1])>>)

\* the OFFSET step of get_sql
EmitOffset(acc, cfg) ==
    IF cfg.offset = None THEN acc ELSE Emit(acc, <<"OFFSET", ToString(cfg.offset[1])>>)

\* `return sql, tuple(collector.parameters)`
ReturnSql(acc) == IF acc.kind # "ok" THEN acc ELSE Ok(acc.sql, parameters(acc.params))

\* SelectBase.get_sql: a fresh collector, then the steps in the order of the code
SelectGetSql(cols, tbl, cfg, d) ==
    ReturnSql(
      EmitOffset(
        EmitLimit(
          EmitOrderBy(
            EmitHaving(
              EmitGroupBy(
                EmitWhere(
                  EmitJoinClauses(
                    EmitProjection(
                      RenderItems([i \in 1..Len(cols) |-> cols[i][2]], d, ParameterCollector(d)),
                      cols, tbl),
                    cfg, d),
                  cfg, d),
                cfg),
              cfg, d),
            cfg, d),
          cfg),
        cfg))

\* ----------------------------------------------------------- insert builder

\* the attribute names a row may use; "nope" is a column of no table
KeyOrder == <<"meta", "nope", "title">>

\* Python's sorted() on a set of column names (KeyOrder is alphabetical)
sorted(S) == SelectSeq(KeyOrder, LAMBDA k : k \in S)

\* the rows handed to values(): ordered mappings column name -> value
Rows ==
    { << <<"title", "v1">>, <<"meta", "v2">> >>,
      << <<"meta", "None">>, <<"title", "v2">> >>,
      << <<"title", "v2">> >>,
      << <<"title", "v1">>, <<"nope", "v2">> >> }

\* the sequences over S of length 0..n
SeqsUpTo(S, n) == UNION {[1..k -> S] : k \in 0..n}

\* the arguments of values(): one dict, or a list of dicts
ValuesArgs ==
    {[is_list |-> FALSE, rows |-> <<r>>] : r \in Rows}
        \cup {[is_list |-> TRUE, rows |-> rs] : rs \in SeqsUpTo(Rows, MaxRows)}

\* InsertBuilder.values: the slot holds a copy of the dict, or a list of copies
values(arg) == Some(arg)

\* `self.config.values = values`: the slot holds the caller's object
values_is_argument_assigned(arg) == TRUE

\* whether the slot holds the caller's object after values(arg): dict(values)
\* and [dict(row) for row in values] build a new dict, and a new list of new
\* dicts, with the keys and values of the argument
values_is_argument(arg) == FALSE

\* m[k] = v on an ordered mapping: a key it has keeps its place
SetItem(m, k, v) ==
    IF k \in Keys(m) THEN [i \in 1..Len(m) |-> IF m[i][1] = k THEN <<k, v>> ELSE m[i]]
    ELSE Append(m, <<k, v>>)

\* del m[k]
DelItem(m, k) == SelectSeq(m, LAMBDA pair : pair[1] # k)

\* what the caller's object can hold after one change by the caller:
\* v["meta"] = "v1" (a key added or reassigned) and del v[<first key>] on the
\* dict or on the first row of the list, and append of a row to the list
CallerMutations(content) ==
    (IF content.rows = <<>> THEN {}
     ELSE {[content EXCEPT !.rows[1] = SetItem(@, "meta", "v1")],
           [content EXCEPT !.rows[1] = DelItem(@, @[1][1])]})
    \cup (IF content.is_list /\ Len(content.rows) < MaxRows
          THEN {[content EXCEPT !.rows = Append(@, << <<"title", "v2">> >>)]}
          ELSE {})

\* json.dumps of a value
json_dumps(v) == "json:" \o v

\* `collector.add(row_values[column_name])`: the value registered as it is
serialize_skipped(column, value) == value

\* column.serialize(value) for the serialization mixin of a schemix.base column
serialize(column, value) ==
    CASE column.ser = "passthrough" -> value
      [] column.ser = "json" -> IF value = "None" THEN "None" ELSE json_dumps(value)

\* every (row index, column name) of values_list in iteration order
RowKeys(values_list) ==
    Flatten([r \in 1..Len(values_list) |->
                [c \in 1..Len(values_list[r]) |-> <<r, values_list[r][c][1]>>]])

\* the validation with the key-set check of a row done before its columns are
\* looked up: a batch with a mismatched row never reaches the column check
FirstUnknownColumnAfterKeySets(values_list, table_columns) ==
    IF \E r \in 1..Len(values_list) : Keys(values_list[r]) # Keys(values_list[1])
    THEN None
    ELSE IF \E r \in 1..Len(values_list) :
               ~(Keys(values_list[r]) \subseteq Keys(table_columns))
    THEN LET c == CHOOSE j \in 1..Len(values_list[1]) :
                      values_list[1][j][1] \notin Keys(table_columns)
         IN  Some(values_list[1][c][1])
    ELSE None

\* the validation loop run over values_list[0] only
FirstUnknownColumnFirstRowOnly(values_list, table_columns) ==
    IF values_list # <<>>
       /\ \E c \in 1..Len(values_list[1]) : values_list[1][c][1] \notin Keys(table_columns)
    THEN LET c == CHOOSE j \in 1..Len(values_list[1]) :
                      /\ values_list[1][j][1] \notin Keys(table_columns)
                      /\ \A k \in 1..(j - 1) : values_list[1][k][1] \in Keys(table_columns)
         IN  Some(values_list[1][c][1])
    ELSE None

\* the validation loop "all provided columns exist in the table": the first
\* column name, row by row and key by key, that the table does not have
FirstUnknownColumn(values_list, table_columns) ==
    LET ks == RowKeys(values_list)
        Unknown(i) == ks[i][2] \notin Keys(table_columns)
    IN  IF \E i \in 1..Len(ks) : Unknown(i)
        THEN LET i == CHOOSE j \in 1..Len(ks) :
                          Unknown(j) /\ \A k \in 1..(j - 1) : ~Unknown(k)
             IN  Some(ks[i][2])
        ELSE None

\* the bulk check with `enumerate(values_list[1:])` for
\* `enumerate(values_list[1:], 1)`: the index counts from 0
FirstMismatchedRowFromZero(values_list) ==
    LET Differs(i) == Keys(values_list[i + 1]) # Keys(values_list[1])
    IN  IF Len(values_list) > 1 /\ \E i \in 1..(Len(values_list) - 1) : Differs(i)
        THEN LET i == CHOOSE j \in 1..(Len(values_list) - 1) :
                          Differs(j) /\ \A k \in 1..(j - 1) : ~Differs(k)
             IN  Some(i - 1)
        ELSE None

\* the bulk check "all rows have the same columns": the enumerate index
\* (from 1 over values_list[1:]) of the first row whose key set differs
FirstMismatchedRow(values_list) ==
    LET Differs(i) == Keys(values_list[i + 1]) # Keys(values_list[1])
    IN  IF Len(values_list) > 1 /\ \E i \in 1..(Len(values_list) - 1) : Differs(i)
        THEN LET i == CHOOSE j \in 1..(Len(values_list) - 1) :
                          Differs(j) /\ \A k \in 1..(j - 1) : ~Differs(k)
             IN  Some(i)
        ELSE None

RECURSIVE AddAll(_, _, _)
\* collector.add on each value of vs in order: the parameter list after the
\* calls and the placeholders they returned
AddAll(ps, d, vs) ==
    IF vs = <<>> THEN [params |-> ps, rets |-> <<>>]
    ELSE LET a == add(ps, d, Head(vs))
             rest == AddAll(a.params, d, Tail(vs))
         IN  [params |-> rest.params, rets |-> <<a.ret>> \o rest.rets]

\* InsertBuilder.get_sql
InsertGetSql(tbl, vals, d) ==
    IF vals = None
    THEN QueryError(<<"INSERT query requires values. Use .values() method.">>)
    ELSE
    LET table_name == get_table_name(tbl)
        collector == ParameterCollector(d)
        table_columns == TableColumns(tbl)
        values_list == vals[1].rows
        unknown == FirstUnknownColumn(values_list, table_columns)
        mismatch == FirstMismatchedRow(values_list)
    IN  IF unknown # None
        THEN QueryError(<<"Column '", unknown[1], "' does not exist in table '",
                          table_name, "'">>)
        ELSE IF mismatch # None
        THEN QueryError(<<"Row ", ToString(mismatch[1]),
                          " has different columns than first row. ", "Expected: ">>
                        \o sorted(Keys(values_list[1])) \o <<", got: ">>
                        \o sorted(Keys(values_list[mismatch[1] + 1])))
        ELSE IF values_list = <<>>
        THEN Raise("IndexError", <<"list index out of range">>)
        ELSE
        LET columns_ == KeyList(values_list[1])
            n == Len(columns_)
        IN  IF n > 0 /\ \E c \in 1..n : Lookup(table_columns, columns_[c]).hier # "base"
            THEN Raise("AttributeError", <<"object has no attribute 'serialize'">>)
            ELSE
            LET serialized ==
                    Flatten([r \in 1..Len(values_list) |->
                                [c \in 1..n |->
                                    serialize(Lookup(table_columns, columns_[c]),
                                              Lookup(values_list[r], columns_[c]))]])
                bound == AddAll(collector, d, serialized)
                value_rows ==
                    [r \in 1..Len(values_list) |->
                        <<"(">> \o JoinWith(", ", [c \in 1..n |->
                                                     <<bound.rets[(r - 1) * n + c]>>])
                                \o <<")">>]
            IN  Ok(<<"INSERT INTO", table_name, "(">>
                       \o JoinWith(", ", [c \in 1..n |-> <<columns_[c]>>])
                       \o <<")", "VALUES">> \o JoinWith(", ", value_rows),
                   parameters(bound.params))

\* --------------------------------------------------------------- connection

\* what `await self.database.connection.execute(sql, params)` can do: return
\* rows, return None, or raise (SchemixConnectionError from the wrappers of
\* connection.py, anything else from another AsyncConnection); lastrowid is
\* what the driver's cursor of that call exposes (aiosqlite's cursor.lastrowid,
\* nothing under a driver without one), which SQLiteConnection.execute reads
\* no more than the description and the rows of
ConnOutcomes ==
    { [kind |-> "ok", rows |-> Some(<<"row">>), lastrowid |-> Some("rowid"), msg |-> <<>>],
      [kind |-> "ok", rows |-> None, lastrowid |-> None, msg |-> <<>>],
      [kind |-> "SchemixConnectionError", rows |-> None, lastrowid |-> None,
       msg |-> <<"Connection Error: ", "Failed to execute query: ", "disk I/O error">>],
      [kind |-> "RuntimeError", rows |-> None, lastrowid |-> None,
       msg |-> <<"connection is closed">>] }

\* a builder's execute that returned value
Returned(value) == [kind |-> "ok", value |-> value, msg |-> <<>>]

\* a builder's execute that raised
Raised(kind, msg) == [kind |-> kind, value |-> None, msg |-> msg]

\* execute with `except SchemixError` for `except Exception`: any other
\* failure of the connection leaves execute as it is
TryExecuteNarrow(r, out, prefix, value) ==
    IF r.kind # "ok"
    THEN [result |-> Raised("QueryError", <<"Query Error: ", prefix>> \o r.msg),
          conn |-> <<>>]
    ELSE [result |-> IF out.kind = "SchemixConnectionError"
                     THEN Raised("QueryError", <<"Query Error: ", prefix>> \o out.msg)
                     ELSE IF out.kind # "ok" THEN Raised(out.kind, out.msg)
                     ELSE Returned(value),
          conn |-> <<[sql |-> r.sql, params |-> r.params, outcome |-> out]>>]

\* execute that awaits the connection before it looks at what get_sql did
TryExecuteEager(r, out, prefix, value) ==
    [result |-> IF r.kind # "ok"
                THEN Raised("QueryError", <<"Query Error: ", prefix>> \o r.msg)
                ELSE IF out.kind # "ok"
                THEN Raised("QueryError", <<"Query Error: ", prefix>> \o out.msg)
                ELSE Returned(value),
     conn |-> <<[sql |-> r.sql, params |-> r.params, outcome |-> out]>>]

\* the try/except of a builder's execute around get_sql's result r and the
\* connection's outcome out: what execute returns or raises, and the calls it
\* made on the connection's execute, each with what that call did
TryExecute(r, out, prefix, value) ==
    IF r.kind # "ok"
    THEN [result |-> Raised("QueryError", <<"Query Error: ", prefix>> \o r.msg),
          conn |-> <<>>]
    ELSE [result |-> IF out.kind # "ok"
                     THEN Raised("QueryError", <<"Query Error: ", prefix>> \o out.msg)
                     ELSE Returned(value),
          conn |-> <<[sql |-> r.sql, params |-> r.params, outcome |-> out]>>]

\* SelectBase.execute: `results or []`
SelectExecute(cols, tbl, cfg, d, out) ==
    TryExecute(SelectGetSql(cols, tbl, cfg, d), out, "Failed to execute select query: ",
               IF out.rows = None THEN <<>> ELSE out.rows[1])

\* the dict InsertBuilder.execute returns; the connection's result is a list
\* or None, which has no lastrowid attribute
InsertResult(vals) ==
    IF vals = None THEN None
    ELSE [rows_affected |-> IF vals[1].is_list THEN Len(vals[1].rows) ELSE 1,
          is_bulk |-> vals[1].is_list,
          last_insert_id |-> None]

\* InsertBuilder.execute
InsertExecute(tbl, vals, d, out) ==
    TryExecute(InsertGetSql(tbl, vals, d), out, "Failed to execute insert query: ",
               InsertResult(vals))

\* ------------------------------------------------------------------- schema

\* a Python value handed to default(): its type and its str()
PyValue(py, text) == [py |-> py, text |-> text]

\* the values default() is called with: "new", True and 0
DefaultValues == {PyValue("str", "new"), PyValue("bool", "True"), PyValue("int", "0")}

\* a column object as ColumnType.__init__ and the class attributes leave it;
\* hier is "base" for a schemix.base column and "columns" for a
\* schemix.columns one, sql_type what its get_sql_type() returns, table_cls
\* the back-reference registration gave it
ColumnType(col_name, hier, sql_type, table_cls) ==
    [col_name |-> col_name, hier |-> hier, sql_type |-> sql_type,
     is_nullable |-> TRUE, is_unique |-> FALSE, is_primary_key |-> FALSE,
     default_value |-> None, _table_cls |-> table_cls,
     _references |-> None, _on_delete |-> None, _on_update |-> None]

\* the tables handed to the schema generator: orders, of two sqlite Integer
\* columns, and audit, of one schemix.columns Text column
SchemaTables == {"orders", "audit"}

SchemaColumns(tbl) ==
    IF tbl = "orders"
    THEN << ColumnType("id", "base", "INTEGER", Some("orders")),
            ColumnType("user_id", "base", "INTEGER", Some("orders")) >>
    ELSE << ColumnType("note", "columns", "TEXT", Some("audit")) >>

\* the columns references() is called with: the id column of the registered
\* table users, and a column object that is no attribute of any table
ReferenceTargets ==
    { ColumnType("id", "base", "INTEGER", Some("users")),
      ColumnType("code", "base", "TEXT", None) }

not_null(c) == [c EXCEPT !.is_nullable = FALSE]

nullable(c) == [c EXCEPT !.is_nullable = TRUE]

unique(c) == [c EXCEPT !.is_unique = TRUE]

primary_key(c) == [c EXCEPT !.is_primary_key = TRUE]

default(c, value) == [c EXCEPT !.default_value = Some(value)]

references(c, column, on_delete, on_update) ==
    [c EXCEPT !._references = Some(column), !._on_delete = on_delete,
              !._on_update = on_update]

\* a schema function that returned the text
Text(text) == [kind |-> "ok", text |-> text, msg |-> <<>>]

\* a schema function that raised
Failure(kind, msg) == [kind |-> kind, text |-> <<>>, msg |-> msg]

\* the DEFAULT part of a column definition for the default value v
DefaultPart(v, d) ==
    IF v.py = "str" THEN <<"DEFAULT '", v.text, "'">>
    ELSE IF v.py = "bool"
    THEN IF d = "sqlite" THEN <<"DEFAULT ", IF v.text = "True" THEN "1" ELSE "0">>
         ELSE <<"DEFAULT ", IF v.text = "True" THEN "TRUE" ELSE "FALSE">>
    ELSE <<"DEFAULT ", v.text>>

\* generate_column_sql with the UNIQUE part appended whatever is_primary_key
generate_column_sql_unique_kept(column, d) ==
    IF column.hier # "base"
    THEN Failure("AttributeError", <<"object has no attribute 'get_sql_type'">>)
    ELSE Text(JoinWith(" ",
            << <<column.col_name, " ", column.sql_type>> >>
            \o (IF column.is_primary_key THEN << <<"PRIMARY KEY">> >> ELSE <<>>)
            \o (IF ~column.is_nullable THEN << <<"NOT NULL">> >> ELSE <<>>)
            \o (IF column.is_unique THEN << <<"UNIQUE">> >> ELSE <<>>)
            \o (IF column.default_value # None
                THEN << DefaultPart(column.default_value[1], d) >> ELSE <<>>)))

\* generate_column_sql: the parts in the order of the function's statements,
\* joined by a blank; a schemix.columns column has no get_sql_type()
generate_column_sql(column, d) ==
    IF column.hier # "base"
    THEN Failure("AttributeError", <<"object has no attribute 'get_sql_type'">>)
    ELSE Text(JoinWith(" ",
            << <<column.col_name, " ", column.sql_type>> >>
            \o (IF column.is_primary_key THEN << <<"PRIMARY KEY">> >> ELSE <<>>)
            \o (IF ~column.is_nullable THEN << <<"NOT NULL">> >> ELSE <<>>)
            \o (IF column.is_unique /\ ~column.is_primary_key
                THEN << <<"UNIQUE">> >> ELSE <<>>)
            \o (IF column.default_value # None
                THEN << DefaultPart(column.default_value[1], d) >> ELSE <<>>)))

\* generate_foreign_key_constraint_sql without the check of the referenced
\* column's table class: the table name renders as None
generate_foreign_key_constraint_sql_unchecked(column, d) ==
    IF column.hier # "base"
    THEN Failure("AttributeError", <<"object has no attribute '_references'">>)
    ELSE IF column._references = None
    THEN Failure("ValueError", <<"Column does not have a foreign key reference">>)
    ELSE Text(<<"FOREIGN KEY (", column.col_name, ") REFERENCES ",
                IF column._references[1]._table_cls = None THEN "None"
                ELSE column._references[1]._table_cls[1],
                "(", column._references[1].col_name, ")">>
              \o (IF column._on_delete # None
                  THEN <<" ON DELETE ", column._on_delete[1]>> ELSE <<>>)
              \o (IF column._on_update # None
                  THEN <<" ON UPDATE ", column._on_update[1]>> ELSE <<>>))

\* generate_foreign_key_constraint_sql with the ON DELETE part left out
generate_foreign_key_constraint_sql_no_on_delete(column, d) ==
    IF column.hier # "base"
    THEN Failure("AttributeError", <<"object has no attribute '_references'">>)
    ELSE IF column._references = None
    THEN Failure("ValueError", <<"Column does not have a foreign key reference">>)
    ELSE IF column._references[1]._table_cls = None
    THEN Failure("ValueError", <<"Referenced column does not have a table class">>)
    ELSE Text(<<"FOREIGN KEY (", column.col_name, ") REFERENCES ",
                column._references[1]._table_cls[1],
                "(", column._references[1].col_name, ")">>
              \o (IF column._on_update # None
                  THEN <<" ON UPDATE ", column._on_update[1]>> ELSE <<>>))

\* generate_foreign_key_constraint_sql; a schemix.columns column has no
\* _references attribute
generate_foreign_key_constraint_sql(column, d) ==
    IF column.hier # "base"
    THEN Failure("AttributeError", <<"object has no attribute '_references'">>)
    ELSE IF column._references = None
    THEN Failure("ValueError", <<"Column does not have a foreign key reference">>)
    ELSE IF column._references[1]._table_cls = None
    THEN Failure("ValueError", <<"Referenced column does not have a table class">>)
    ELSE Text(<<"FOREIGN KEY (", column.col_name, ") REFERENCES ",
                column._references[1]._table_cls[1],
                "(", column._references[1].col_name, ")">>
              \o (IF column._on_delete # None
                  THEN <<" ON DELETE ", column._on_delete[1]>> ELSE <<>>)
              \o (IF column._on_update # None
                  THEN <<" ON UPDATE ", column._on_update[1]>> ELSE <<>>))

\* the results of the loop of generate_create_table_sql over the columns, in
\* the order the calls are made: each column's definition, followed by its
\* constraint when it references a column
ElementCalls(cols, d) ==
    Flatten([i \in 1..Len(cols) |->
        <<[list |-> "column", result |-> generate_column_sql(cols[i], d)]>>
        \o (IF cols[i].hier = "base" /\ cols[i]._references # None
            THEN <<[list |-> "foreign_key",
                    result |-> generate_foreign_key_constraint_sql(cols[i], d)]>>
            ELSE <<>>)])

\* the texts the calls appended to the list named
ElementsOf(ecalls, list) ==
    LET kept == SelectSeq(ecalls, LAMBDA e : e.list = list)
    IN  [i \in 1..Len(kept) |-> <<"  ">> \o kept[i].result.text]

\* generate_create_table_sql: the first call of the loop that raised ends
\* it; otherwise the column definitions, then the constraints, one to a line
generate_create_table_sql(tbl, cols, d) ==
    LET ecalls == ElementCalls(cols, d)
        failed == {i \in 1..Len(ecalls) : ecalls[i].result.kind # "ok"}
    IN  IF failed # {}
        THEN ecalls[CHOOSE i \in failed : \A j \in failed : i <= j].result
        ELSE Text(<<"CREATE TABLE ", tbl, " (\n">>
                  \o JoinWith(",\n", ElementsOf(ecalls, "column")
                                     \o ElementsOf(ecalls, "foreign_key"))
                  \o <<"\n)">>)

\* ---------------------------------------------------------- dialect support

\* what a caller can pass as dialect: the members of the enumeration and,
\* the annotation not being enforced, any other value
DialectArguments == Dialect \cup {"mysql"}

\* DialectNotSupportedError.__init__(dialect, message); str(e) as pieces
DialectNotSupportedError(d, message) ==
    Failure("DialectNotSupportedError", <<"Dialect ", d, " is not supported: ">> \o message)

\* DialectNotSupportedError.from_column(dialect, column)
from_column(d, column) ==
    DialectNotSupportedError(d, <<"Column type ", column, " is not supported">>)

\* a call of get_placeholder with its final raise
get_placeholder_call(d, index) ==
    IF d \in Dialect THEN Text(<<get_placeholder(d, index)>>)
    ELSE DialectNotSupportedError(d, <<"Unsupported dialect">>)

\* the integer column classes of schemix.columns
IntegerClasses == {"Integer", "SmallInt", "BigInt", "Serial"}

\* Serial without an override: _get_sql_type of its base class Integer
_get_sql_type_inherited(cls, d) ==
    IF d = "sqlite" THEN Text(<<IF cls = "SmallInt" THEN "INT" ELSE "INTEGER">>)
    ELSE IF d = "postgresql"
    THEN Text(<<CASE cls = "SmallInt" -> "SMALLINT" [] cls = "BigInt" -> "BIGINT"
                  [] OTHER -> "INT">>)
    ELSE from_column(d, cls)

\* column._get_sql_type(dialect) of schemix.columns Integer, SmallInt, BigInt
\* and Serial; self.__class__.__name__ is cls
_get_sql_type(cls, d) ==
    IF cls = "Serial"
    THEN IF d = "postgresql" THEN Text(<<"SERIAL">>) ELSE from_column(d, cls)
    ELSE IF d = "sqlite" THEN Text(<<IF cls = "SmallInt" THEN "INT" ELSE "INTEGER">>)
    ELSE IF d = "postgresql"
    THEN Text(<<CASE cls = "Integer" -> "INT" [] cls = "SmallInt" -> "SMALLINT"
                  [] cls = "BigInt" -> "BIGINT">>)
    ELSE from_column(d, cls)

\* ---------------------------------------------------------- table accessors

\* BaseTable.get_required_columns on the column map cols (declaration order)
get_required_columns(cols) == SelectSeq(cols, LAMBDA c : c.is_nullable = FALSE)

\* get_optional_columns without its condition: every column of the map
get_optional_columns_unfiltered(cols) == cols

\* BaseTable.get_optional_columns
get_optional_columns(cols) == SelectSeq(cols, LAMBDA c : c.is_nullable = TRUE)

\* ------------------------------------------------------------ serialization

\* the serialization mixins of base.py
Mixins == {"passthrough", "json", "date", "time", "timestamp"}

PyNone == PyValue("NoneType", "None")

\* the values a column of each mixin is given: None and values of the
\* column's type parameter; text is the value's repr, or its isoformat() for
\* a date, time or datetime
MixinValues(mixin) ==
    CASE mixin = "passthrough" -> {PyNone, PyValue("int", "7"), PyValue("str", "'a'")}
      [] mixin = "json" -> {PyNone, PyValue("dict", "{'a': 1}"), PyValue("list", "[1, 2]"),
                            PyValue("list", "[(1, 2)]")}
      [] mixin = "date" -> {PyNone, PyValue("date", "2024-01-02")}
      [] mixin = "time" -> {PyNone, PyValue("time", "03:04:05")}
      [] mixin = "timestamp" -> {PyNone, PyValue("datetime", "2024-01-02T03:04:05")}

\* json.dumps: the JSON text of a value; a tuple is written as an array
json_dumps_text(value) ==
    CASE value = PyValue("dict", "{'a': 1}") -> PyValue("str", "{\"a\": 1}")
      [] value = PyValue("list", "[1, 2]") -> PyValue("str", "[1, 2]")
      [] value = PyValue("list", "[(1, 2)]") -> PyValue("str", "[[1, 2]]")

\* json.loads: the value of a JSON text; an array is read as a list
json_loads(db_value) ==
    CASE db_value = PyValue("str", "{\"a\": 1}") -> PyValue("dict", "{'a': 1}")
      [] db_value = PyValue("str", "[1, 2]") -> PyValue("list", "[1, 2]")
      [] db_value = PyValue("str", "[[1, 2]]") -> PyValue("list", "[[1, 2]]")

\* value.isoformat() of a date, time or datetime
isoformat(value) == PyValue("str", value.text)

\* datetime.date / time / datetime .fromisoformat of a str
fromisoformat(cls, db_value) == PyValue(cls, db_value.text)

\* serialize of the mixin
MixinSerialize(mixin, value) ==
    IF mixin = "passthrough" THEN value
    ELSE IF value = PyNone THEN PyNone
    ELSE IF mixin = "json" THEN json_dumps_text(value)
    ELSE isoformat(value)

\* deserialize that hands the stored text back as it is
MixinDeserializeUndecoded(mixin, db_value) == db_value

\* deserialize of the mixin
MixinDeserialize(mixin, db_value) ==
    IF mixin = "passthrough" THEN db_value
    ELSE IF db_value = PyNone THEN PyNone
    ELSE IF db_value.py # "str" THEN db_value
    ELSE CASE mixin = "json" -> json_loads(db_value)
           [] mixin = "date" -> fromisoformat("date", db_value)
           [] mixin = "time" -> fromisoformat("time", db_value)
           [] mixin = "timestamp" -> fromisoformat("datetime", db_value)

\* ------------------------------------------------------------- registration

\* a Python str as the sequence of its characters
UserTable == <<"U", "s", "e", "r", "T", "a", "b", "l", "e">>

BlogPost == <<"B", "l", "o", "g", "P", "o", "s", "t">>

Vegetable == <<"V", "e", "g", "e", "t", "a", "b", "l", "e">>

People == <<"p", "e", "o", "p", "l", "e">>

\* the names of the declared classes
ClassNames == {UserTable, BlogPost, Vegetable}

\* str.isupper() of a character
isupper(ch) == ch \in {"U", "T", "B", "P", "V"}

\* str.lower() of a character
lower(ch) ==
    CASE ch = "U" -> "u"
      [] ch = "T" -> "t"
      [] ch = "B" -> "b"
      [] ch = "P" -> "p"
      [] ch = "V" -> "v"
      [] OTHER -> ch

\* str.endswith
endswith(str, suffix) ==
    Len(str) >= Len(suffix)
    /\ SubSeq(str, Len(str) - Len(suffix) + 1, Len(str)) = suffix

\* the objects a class body binds: column objects (by id) of either
\* hierarchy, and two that are not columns: a str, and an object with the
\* five attributes of the contract but none of its methods
Objects ==
    { [t |-> "column", id |-> "c1"], [t |-> "column", id |-> "c2"],
      [t |-> "str", id |-> "s1"], [t |-> "descriptor", id |-> "d1"] }

\* the attributes and callables hasattr / callable(getattr(...)) find on o
Capabilities(o) ==
    CASE o.t = "column" -> {"col_name", "is_nullable", "is_unique", "is_primary_key",
                            "default_value", "not_null", "nullable", "unique",
                            "primary_key", "default"}
      [] o.t = "descriptor" -> {"col_name", "is_nullable", "is_unique", "is_primary_key",
                                "default_value"}
      [] OTHER -> {}

\* _is_column_type with the five callable(...) tests left out
_is_column_type_attributes_only(o) ==
    {"col_name", "is_nullable", "is_unique", "is_primary_key", "default_value"}
        \subseteq Capabilities(o)

\* utils._is_column_type
_is_column_type(o) ==
    {"col_name", "is_nullable", "is_unique", "is_primary_key", "default_value",
     "not_null", "nullable", "unique", "primary_key", "default"} \subseteq Capabilities(o)

\* the column objects before any declaration: c1 a sqlite Integer("id"), c2 a
\* schemix.columns Text("email"), neither an attribute of a table yet
Instances ==
    [id \in {"c1", "c2"} |->
        IF id = "c1" THEN ColumnType("id", "base", "INTEGER", None)
        ELSE ColumnType("email", "columns", "TEXT", None)]

\* the class bodies declared: sequences of <<attribute name, object>>; a
\* __tablename__ entry, when the body has one, is a str
Namespaces ==
    { << <<"id", [t |-> "column", id |-> "c1"]>>, <<"email", [t |-> "column", id |-> "c2"]>> >>,
      << <<"mail", [t |-> "column", id |-> "c2"]>>, <<"kind", [t |-> "str", id |-> "s1"]>>,
         <<"key", [t |-> "column", id |-> "c1"]>> >>,
      << <<"id", [t |-> "column", id |-> "c1"]>>, <<"score", [t |-> "descriptor", id |-> "d1"]>> >>,
      << <<"__tablename__", [t |-> "str", id |-> "s2", text |-> People]>>,
         <<"email", [t |-> "column", id |-> "c2"]>> >> }

\* namespace.get("__tablename__")
NamespaceGet(namespace, key) ==
    IF \E i \in 1..Len(namespace) : namespace[i][1] = key
    THEN Some(namespace[CHOOSE i \in 1..Len(namespace) : namespace[i][1] = key][2].text)
    ELSE None

\* the name derived from the class name with the suffix test on "table"
\* instead of "_table"
DerivedNameTableSuffix(name) ==
    LET snake == Flatten([i \in 1..Len(name) |->
                     IF isupper(name[i]) /\ i > 1 THEN <<"_", lower(name[i])>>
                     ELSE <<lower(name[i])>>])
    IN  IF endswith(snake, <<"t", "a", "b", "l", "e">>)
        THEN SubSeq(snake, 1, Len(snake) - 6) ELSE snake

\* the name TableMeta.__new__ derives from the class name: an underscore
\* before every upper-case character but the first, all in lower case, a
\* final "_table" cut off
DerivedName(name) ==
    LET snake == Flatten([i \in 1..Len(name) |->
                     IF isupper(name[i]) /\ i > 1 THEN <<"_", lower(name[i])>>
                     ELSE <<lower(name[i])>>])
    IN  IF endswith(snake, <<"_", "t", "a", "b", "l", "e">>)
        THEN SubSeq(snake, 1, Len(snake) - 6) ELSE snake

\* the column map TableMeta.__new__ collects from the class body
CollectColumns(namespace) ==
    SelectSeq(namespace, LAMBDA item : _is_column_type(item[2]))

\* the class TableMeta.__new__ creates for a declaration: its name, its
\* __dict__ (the class body), the column map as <<attribute, object id>> pairs
\* and the table name
TableMeta__new__(name, namespace) ==
    [name |-> name,
     namespace |-> namespace,
     _columns |-> [i \in 1..Len(CollectColumns(namespace)) |->
                      <<CollectColumns(namespace)[i][1], CollectColumns(namespace)[i][2].id>>],
     _table_name |-> IF NamespaceGet(namespace, "__tablename__") = None
                        /\ name # <<"B", "a", "s", "e", "T", "a", "b", "l", "e">>
                     THEN Some(DerivedName(name))
                     ELSE NamespaceGet(namespace, "__tablename__")]

\* `column._table_cls = cls` for every column of the class created as the
\* n-th of the registry
SetTableCls(heap, cls, n) ==
    [id \in DOMAIN heap |->
        IF \E i \in 1..Len(cls._columns) : cls._columns[i][2] = id
        THEN [heap[id] EXCEPT !._table_cls = Some(n)]
        ELSE heap[id]]

\* ColumnType._get_qualified_name of a column object whose _table_cls is a
\* class of the registry reg
QualifiedName(c, reg) ==
    IF c._table_cls # None
    THEN reg[c._table_cls[1]]._table_name[1] \o <<".", c.col_name>>
    ELSE <<c.col_name>>

\* ------------------------------------------------------------------ actions

\* the projections handed to Database.select
Projections ==
    { << <<"id", UsersId>>, <<"age", UsersAge>> >>,
      << <<"id", UsersId>>, <<"next", AgePlus>> >>,
      << <<"title", PostsTitle>> >> }

Call(op, arg) == [op |-> op, arg |-> arg]

Init ==
    /\ obj \in {"collector", "select", "insert", "schema", "tables", "functions"}
    /\ dialect \in (IF obj = "tables" THEN {"sqlite"} ELSE Dialect)
    /\ params = <<>>
    /\ added = <<>>
    /\ columns \in (IF obj = "select" THEN Projections ELSE {<<>>})
    /\ table \in (IF obj = "insert" THEN {"posts", "events"}
                  ELSE IF obj = "schema" THEN SchemaTables ELSE {"users"})
    /\ config = SelectConfig
    /\ ins_config = None
    /\ caller = None
    /\ calls = 0
    /\ lastcall = Call("__init__", None)
    /\ returned = <<>>
    /\ executed = None
    /\ tabledef = (IF obj = "schema" THEN SchemaColumns(table) ELSE <<>>)
    /\ generated = None
    /\ registry = <<>>
    /\ instances = Instances
    /\ probe = None

\* collector.add(v)
Add ==
    /\ obj = "collector"
    /\ Len(params) < MaxAdds
    /\ \E v \in Values :
          LET a == add(params, dialect, v)
          IN  /\ params' = a.params
              /\ added' = Append(added, <<v, a.ret>>)
              /\ lastcall' = Call("add", v)
    /\ UNCHANGED <<obj, dialect, columns, table, config, ins_config, calls, returned,
                   executed>>
    /\ UNCHANGED <<caller, catalog_vars>>

\* a configuration call on the select builder that leaves it with cfg
Configure(op, arg, cfg) ==
    /\ obj = "select"
    /\ calls < MaxCalls
    /\ config' = cfg
    /\ calls' = calls + 1
    /\ lastcall' = Call(op, arg)
    /\ returned' = <<>>
    /\ executed' = None
    /\ UNCHANGED <<obj, dialect, params, added, columns, table, ins_config>>
    /\ UNCHANGED <<caller, catalog_vars>>

Where == \E e \in {AgeGt, IdEq} : Configure("where", e, where(config, e))

Having == \E e \in {AgeGt} : Configure("having", e, having(config, e))

GroupBy ==
    \E cols \in {<<>>, <<UsersAge, PostsTitle>>} :
        Configure("group_by", cols, group_by(config, cols))

OrderBy ==
    \E args \in {<<>>, <<UsersId>>, <<UsersAge, AgeGt>>} :
        Configure("order_by", args, order_by(config, args))

Limit == \E n \in {1, 2} : Configure("limit", n, limit(config, n))

Offset == \E n \in {1} : Configure("offset", n, offset(config, n))

\* the room left in the join list
CanJoin == IF config.joins = None THEN TRUE ELSE Len(config.joins[1]) < MaxJoins

\* left_join, right_join, inner_join, full_join (table, on)
OnJoin(join_type, ons) ==
    /\ CanJoin
    /\ \E on \in ons :
          Configure(join_type \o "_join", JoinClause(join_type, "posts", on),
                    _create_join(config, join_type, "posts", on))

LeftJoin == OnJoin("left", {None, Some(IdEq)})

RightJoin == OnJoin("right", {Some(IdEq)})

InnerJoin == OnJoin("inner", {Some(IdEq)})

FullJoin == OnJoin("full", {Some(IdEq)})

\* cross_join(table)
CrossJoin ==
    /\ CanJoin
    /\ Configure("cross_join", JoinClause("cross", "posts", None),
                 _create_join(config, "cross", "posts", None))

\* InsertBuilder.values(arg)
InsertValues ==
    /\ obj = "insert"
    /\ \E arg \in ValuesArgs :
          /\ ins_config' = values(arg)
          /\ caller' = Some([passed |-> arg, changed |-> FALSE])
          /\ lastcall' = Call("values", arg)
    /\ returned' = <<>>
    /\ executed' = None
    /\ UNCHANGED <<obj, dialect, params, added, columns, table, config, calls>>
    /\ UNCHANGED catalog_vars

\* the caller changes the object it handed to values(), which it has not
\* changed since the call; the slot follows when it holds that object
CallerMutates ==
    /\ obj = "insert"
    /\ caller # None
    /\ ~caller[1].changed
    /\ \E now \in CallerMutations(caller[1].passed) :
          /\ now # caller[1].passed
          /\ caller' = Some([caller[1] EXCEPT !.changed = TRUE])
          /\ ins_config' = IF values_is_argument(caller[1].passed) THEN Some(now)
                           ELSE ins_config
    /\ UNCHANGED <<obj, dialect, params, added, columns, table, config, calls, lastcall,
                   returned, executed>>
    /\ UNCHANGED catalog_vars

\* the builder's get_sql on its current configuration
get_sql ==
    IF obj = "select" THEN SelectGetSql(columns, table, config, dialect)
    ELSE InsertGetSql(table, ins_config, dialect)

\* a get_sql call on the builder
GetSql ==
    /\ obj \in {"select", "insert"}
    /\ Len(returned) < MaxRenders
    /\ returned' = Append(returned, get_sql)
    /\ lastcall' = Call("get_sql", None)
    /\ executed' = None
    /\ UNCHANGED <<obj, dialect, params, added, columns, table, config, ins_config, calls>>
    /\ UNCHANGED <<caller, catalog_vars>>

\* the builder's execute, given the connection's outcome
execute(out) ==
    IF obj = "select" THEN SelectExecute(columns, table, config, dialect, out)
    ELSE InsertExecute(table, ins_config, dialect, out)

\* an execute call on the builder
Execute ==
    /\ obj \in {"select", "insert"}
    /\ \E out \in ConnOutcomes : executed' = Some(execute(out))
    /\ lastcall' = Call("execute", None)
    /\ returned' = <<>>
    /\ UNCHANGED <<obj, dialect, params, added, columns, table, config, ins_config, calls>>
    /\ UNCHANGED <<caller, catalog_vars>>

\* a fluent call on the i-th column of the table that leaves it as c
Fluent(i, c) ==
    /\ obj = "schema"
    /\ calls < MaxCalls
    /\ tabledef' = [tabledef EXCEPT ![i] = c]
    /\ calls' = calls + 1
    /\ generated' = None
    /\ UNCHANGED <<obj, dialect, table, lastcall, registry, instances>>
    /\ UNCHANGED <<builder_vars, probe>>

NotNull == \E i \in 1..Len(tabledef) : Fluent(i, not_null(tabledef[i]))

Nullable == \E i \in 1..Len(tabledef) : Fluent(i, nullable(tabledef[i]))

Unique == \E i \in 1..Len(tabledef) : Fluent(i, unique(tabledef[i]))

PrimaryKey ==
    \E i \in 1..Len(tabledef) : Fluent(i, primary_key(tabledef[i]))

Default ==
    \E i \in 1..Len(tabledef) : \E value \in DefaultValues :
        Fluent(i, default(tabledef[i], value))

\* references(column, on_delete=..., on_update=...); a schemix.columns column
\* has no such method
References ==
    \E i \in 1..Len(tabledef) : \E column \in ReferenceTargets :
        \E on_delete \in {None, Some("CASCADE")} : \E on_update \in {None, Some("SET NULL")} :
            /\ tabledef[i].hier = "base"
            /\ column._table_cls = None => (on_delete = None /\ on_update = None)
            /\ Fluent(i, references(tabledef[i], column, on_delete, on_update))

\* a call of a function of schema.py with result r
Generate(op, arg, r) ==
    /\ obj = "schema"
    /\ generated' = Some([op |-> op, arg |-> arg, result |-> r])
    /\ UNCHANGED <<obj, dialect, table, calls, lastcall, tabledef, registry, instances>>
    /\ UNCHANGED <<builder_vars, probe>>

GenerateColumnSql ==
    \E i \in 1..Len(tabledef) :
        Generate("generate_column_sql", i, generate_column_sql(tabledef[i], dialect))

GenerateCreateTableSql ==
    Generate("generate_create_table_sql", table,
             generate_create_table_sql(table, tabledef, dialect))

GetRequiredColumns ==
    Generate("get_required_columns", table, get_required_columns(tabledef))

GetOptionalColumns ==
    Generate("get_optional_columns", table, get_optional_columns(tabledef))

\* a class statement `class <name>(BaseTable): <namespace>`
Declare ==
    /\ obj = "tables"
    /\ Len(registry) < MaxTables
    /\ \E name \in ClassNames : \E namespace \in Namespaces :
          /\ registry' = Append(registry, TableMeta__new__(name, namespace))
          /\ instances' = SetTableCls(instances, TableMeta__new__(name, namespace),
                                      Len(registry) + 1)
    /\ UNCHANGED <<obj, dialect, table, calls, lastcall, tabledef, generated>>
    /\ UNCHANGED <<builder_vars, probe>>

\* a function applied on its own
Apply(fn, arg, result) ==
    /\ obj = "functions"
    /\ probe' = Some([fn |-> fn, arg |-> arg, result |-> result])
    /\ UNCHANGED <<obj, dialect, table, calls, lastcall, tabledef, generated, registry,
                   instances, builder_vars>>

\* column.deserialize(column.serialize(value))
RoundTrip ==
    \E mixin \in Mixins : \E value \in MixinValues(mixin) :
        Apply("deserialize(serialize)", [mixin |-> mixin, value |-> value],
              MixinDeserialize(mixin, MixinSerialize(mixin, value)))

\* column.deserialize(value) of a value the driver decoded already
DeserializeDecoded ==
    \E mixin \in Mixins : \E value \in MixinValues(mixin) :
        Apply("deserialize", [mixin |-> mixin, value |-> value],
              MixinDeserialize(mixin, value))

\* expr.to_sql(ParameterCollector(dialect))
ToSql ==
    \E x \in Expressions :
        Apply("to_sql", x, expression_to_sql(x, dialect, ParameterCollector(dialect)))

\* (column ** 2).to_sql(ParameterCollector(dialect)) for an Integer column of
\* each module
Pow ==
    \E module \in ColumnModules :
        Apply("__pow__", module,
              IF __pow__(module, IntegerAge(module), Lit("v2")).kind # "ok"
              THEN __pow__(module, IntegerAge(module), Lit("v2"))
              ELSE expression_to_sql(__pow__(module, IntegerAge(module), Lit("v2")).sql[1],
                                     dialect, ParameterCollector(dialect)))

\* column.count_distinct().to_sql(ParameterCollector(dialect)) for an Integer
\* column of each module
CountDistinct ==
    \E module \in ColumnModules :
        Apply("count_distinct", module,
              IF count_distinct(module, IntegerAge(module)).kind # "ok"
              THEN count_distinct(module, IntegerAge(module))
              ELSE expression_to_sql(count_distinct(module, IntegerAge(module)).sql[1],
                                     dialect, ParameterCollector(dialect)))

\* get_placeholder(d, index)
GetPlaceholder ==
    \E d \in DialectArguments : \E index \in 0..1 :
        Apply("get_placeholder", [dialect |-> d, index |-> index], get_placeholder_call(d, index))

\* cls("n")._get_sql_type(d)
GetSqlType ==
    \E cls \in IntegerClasses : \E d \in DialectArguments :
        Apply("_get_sql_type", [dialect |-> d, cls |-> cls], _get_sql_type(cls, d))

Next ==
    \/ Add
    \/ Where
    \/ Having
    \/ GroupBy
    \/ OrderBy
    \/ Limit
    \/ Offset
    \/ LeftJoin
    \/ RightJoin
    \/ InnerJoin
    \/ FullJoin
    \/ CrossJoin
    \/ InsertValues
    \/ GetSql
    \/ Execute
    \/ NotNull
    \/ Nullable
    \/ Unique
    \/ PrimaryKey
    \/ Default
    \/ References
    \/ GenerateColumnSql
    \/ GenerateCreateTableSql
    \/ Declare
    \/ RoundTrip
    \/ DeserializeDecoded
    \/ ToSql
    \/ Pow
    \/ CountDistinct
    \/ GetPlaceholder
    \/ GetSqlType
    \/ GetRequiredColumns
    \/ GetOptionalColumns
    \/ CallerMutates

Spec == Init /\ [][Next]_vars

\* ------------------------------------------------------------------- claims

\* the placeholder of the n-th bound value (n from 1) under dialect d
PlaceholderAt(d, n) == IF d = "sqlite" THEN "?" ELSE "$" \o ToString(n)

\* the placeholders of a statement, left to right
Placeholders(sql) ==
    SelectSeq(sql, LAMBDA tok : tok = "?" \/ \E k \in 1..Len(sql) : tok = "$" \o ToString(k))

\* part occurs in msg as a run of consecutive pieces
Contains(msg, part) ==
    \E s \in 0..(Len(msg) - Len(part)) : SubSeq(msg, s + 1, s + Len(part)) = part

\* part is the end of msg
EndsWith(msg, part) ==
    Len(msg) >= Len(part) /\ SubSeq(msg, Len(msg) - Len(part) + 1, Len(msg)) = part

RECURSIVE Literals(_)
\* the literal operands of an expression, left to right
Literals(x) ==
    IF x.t = "lit" THEN <<x.v>>
    ELSE IF x.t = "bin" THEN Literals(x.left) \o Literals(x.right)
    ELSE <<>>

\* the literals of an optional expression
SlotLiterals(slot) == IF slot = None THEN <<>> ELSE Literals(slot[1])

\* the literals of a select, in the order the clauses are rendered
SelectLiterals(cols, cfg) ==
    Flatten([i \in 1..Len(cols) |-> Literals(cols[i][2])])
    \o (IF cfg.joins = None THEN <<>>
        ELSE Flatten([i \in 1..Len(cfg.joins[1]) |-> SlotLiterals(cfg.joins[1][i].on)]))
    \o SlotLiterals(cfg.where)
    \o SlotLiterals(cfg.having)
    \o (IF cfg.order_by = None THEN <<>>
        ELSE Flatten([i \in 1..Len(cfg.order_by[1]) |-> Literals(cfg.order_by[1][i])]))

\* the rows of the insert builder's values slot
InsertRows == IF ins_config = None THEN <<>> ELSE ins_config[1].rows

\* some row of the values slot names a column the table does not have
HasUnknownColumn ==
    \E r \in 1..Len(InsertRows) : ~(Keys(InsertRows[r]) \subseteq Keys(TableColumns(table)))

\* some row of the values slot has another key set than the first row
HasMismatchedRow ==
    \E r \in 1..Len(InsertRows) : Keys(InsertRows[r]) # Keys(InsertRows[1])

\* the values slot holds at least one row and passes both validations
InsertValid == InsertRows # <<>> /\ ~HasUnknownColumn /\ ~HasMismatchedRow

\* C1: after any sequence of add calls on a collector of either dialect, the
\* k-th call returned "?" under sqlite and "$k" under postgresql, and
\* parameters holds exactly the added values in call order
C1_CollectorInvariant ==
    obj = "collector" =>
        /\ Len(parameters(params)) = Len(added)
        /\ \A k \in 1..Len(added) :
              /\ parameters(params)[k] = added[k][1]
              /\ added[k][2] = PlaceholderAt(dialect, k)

C1_Witness ==
    /\ obj = "collector"
    /\ dialect = "postgresql"
    /\ Len(added) >= 2
    /\ added[2] = <<"v2", "$2">>
    /\ params = <<"v1", "v2">>

\* C2: every get_sql of a select that carries a literal, or of an insert whose
\* values pass validation, returns a statement whose N-th placeholder stands
\* for the N-th returned parameter: as many placeholders as parameters,
\* "$1", "$2", ... without gap or repeat under postgresql, and for a select
\* the parameters are its literals in clause order
C2_PlaceholdersMatchParameters ==
    \A i \in 1..Len(returned) :
        (\/ obj = "select" /\ SelectLiterals(columns, config) # <<>>
         \/ obj = "insert" /\ InsertValid)
        => /\ returned[i].kind = "ok"
           /\ Placeholders(returned[i].sql)
                = [k \in 1..Len(returned[i].params) |-> PlaceholderAt(dialect, k)]
           /\ obj = "select" => returned[i].params = SelectLiterals(columns, config)

PlainProjection == \A i \in 1..Len(columns) : IsColumnsColumnType(columns[i][2])

\* the join list of a select configuration
JoinList(cfg) == IF cfg.joins = None THEN <<>> ELSE cfg.joins[1]

ClauseKeywords ==
    {"SELECT", "FROM", "JOIN", "WHERE", "GROUP BY", "HAVING", "ORDER BY", "LIMIT", "OFFSET"}

\* the clause keywords of a statement, left to right
Clauses(sql) == SelectSeq(sql, LAMBDA tok : tok \in ClauseKeywords)

\* the keyword of an optional slot
SlotClause(slot, keyword) == IF slot = None THEN <<>> ELSE <<keyword>>

\* the keywords of the clauses that are set, in the fixed order
ExpectedClauses(cfg) ==
    <<"SELECT", "FROM">>
    \o [i \in 1..Len(JoinList(cfg)) |-> "JOIN"]
    \o SlotClause(cfg.where, "WHERE")
    \o SlotClause(cfg.group_by, "GROUP BY")
    \o SlotClause(cfg.having, "HAVING")
    \o SlotClause(cfg.order_by, "ORDER BY")
    \o SlotClause(cfg.limit, "LIMIT")
    \o SlotClause(cfg.offset, "OFFSET")

\* the positions of the JOIN keywords of a statement, left to right
JoinPositions(sql) == SelectSeq([p \in 1..Len(sql) |-> p], LAMBDA p : sql[p] = "JOIN")

\* C4: whatever the order of the configuration calls, get_sql of a select of
\* plain columns renders exactly the clauses that are set, in the order
\* SELECT, FROM, the joins in call order, WHERE, GROUP BY, HAVING, ORDER BY,
\* LIMIT, OFFSET
C4_FixedRenderOrder ==
    (obj = "select" /\ PlainProjection) =>
        \A i \in 1..Len(returned) :
            /\ returned[i].kind = "ok"
            /\ Clauses(returned[i].sql) = ExpectedClauses(config)
            /\ [k \in 1..Len(JoinList(config)) |->
                    returned[i].sql[JoinPositions(returned[i].sql)[k] - 1]]
                 = [k \in 1..Len(JoinList(config)) |-> Upper(JoinList(config)[k].join_type)]

SlotOps == {"where", "having", "group_by", "order_by", "limit", "offset"}

JoinOps == {"left_join", "right_join", "inner_join", "full_join", "cross_join"}

\* a configuration call on the select builder: the slot its name says holds
\* the call's argument and every other slot is as before; a join call puts
\* one clause of its kind at the end of the join list
C5_Call ==
    /\ lastcall'.op \in SlotOps \cup JoinOps
    /\ lastcall'.op \in SlotOps =>
          config' = [config EXCEPT ![lastcall'.op] = Some(lastcall'.arg)]
    /\ lastcall'.op \in JoinOps =>
          /\ config' = [config EXCEPT !.joins = Some(Append(JoinList(config), lastcall'.arg))]
          /\ lastcall'.arg.join_type \o "_join" = lastcall'.op

\* C5: where, having, group_by, order_by, limit and offset each overwrite
\* their own slot only (the last call wins); each join call appends one
\* clause to the join list and changes no other slot
C5_SlotFrame == [][(obj = "select" /\ calls' = calls + 1) => C5_Call]_vars

C5_Witness ==
    /\ obj = "select"
    /\ lastcall.op = "cross_join"
    /\ config.where # None
    /\ Len(JoinList(config)) = 2
    /\ JoinList(config)[1].join_type = "left"
    /\ JoinList(config)[2].join_type = "cross"

\* C6: in a rendered select a CROSS JOIN is not followed by ON, and every
\* other JOIN is followed by its table and an ON clause
C6_NonCrossJoinHasOn ==
    obj = "select" =>
        \A i \in 1..Len(returned) :
            returned[i].kind = "ok" =>
                \A p \in 2..Len(returned[i].sql) :
                    returned[i].sql[p] = "JOIN" =>
                        (returned[i].sql[p - 1] # "CROSS")
                            = (p + 2 <= Len(returned[i].sql) /\ returned[i].sql[p + 2] = "ON")

\* the calls the last execute made on the connection
ConnCalls == IF executed = None THEN <<>> ELSE executed[1].conn

\* C7: when the connection's execute fails, the builder's execute raises a
\* QueryError whose message includes the failure's message
C7_ConnectionFailureWrapped ==
    \A k \in 1..Len(ConnCalls) :
        ConnCalls[k].outcome.kind # "ok" =>
            /\ executed[1].result.kind = "QueryError"
            /\ Contains(executed[1].result.msg, ConnCalls[k].outcome.msg)

C7_Witness ==
    /\ obj = "select"
    /\ Len(ConnCalls) = 1
    /\ ConnCalls[1].outcome.kind = "RuntimeError"
    /\ executed[1].result.kind = "QueryError"
    /\ Contains(executed[1].result.msg, <<"connection is closed">>)

\* C8: on an insert whose values are not set, name an unknown column or have
\* a row with another key set than the first, get_sql raises a QueryError and
\* execute raises one without a call on the connection
C8_ViolationBeforeIO ==
    (obj = "insert" /\ (ins_config = None \/ HasUnknownColumn \/ HasMismatchedRow)) =>
        /\ \A i \in 1..Len(returned) : returned[i].kind = "QueryError"
        /\ executed # None =>
              /\ executed[1].result.kind = "QueryError"
              /\ executed[1].conn = <<>>

C8_Witness ==
    /\ obj = "insert"
    /\ HasMismatchedRow
    /\ ~HasUnknownColumn
    /\ executed # None
    /\ executed[1].result.kind = "QueryError"
    /\ executed[1].conn = <<>>

\* the column names of the values slot that the table does not have
UnknownColumns ==
    UNION {Keys(InsertRows[r]) : r \in 1..Len(InsertRows)} \ Keys(TableColumns(table))

\* C9: when any row of the values names a column the table does not have,
\* get_sql raises a QueryError that names such a column and the table, and
\* returns no SQL
C9_UnknownColumnRaises ==
    (obj = "insert" /\ HasUnknownColumn) =>
        \A i \in 1..Len(returned) :
            /\ returned[i].kind = "QueryError"
            /\ returned[i].sql = <<>>
            /\ \E name \in UnknownColumns :
                  Contains(returned[i].msg,
                           <<"Column '", name, "' does not exist in table '",
                             get_table_name(table), "'">>)

C9_Witness ==
    /\ obj = "insert"
    /\ Len(InsertRows) = 2
    /\ Keys(InsertRows[1]) \subseteq Keys(TableColumns(table))
    /\ "nope" \in Keys(InsertRows[2])
    /\ Len(returned) = 1
    /\ returned[1].kind = "QueryError"
    /\ Contains(returned[1].msg, <<"nope">>)

\* the values are a batch of known columns in which some row differs from the
\* first row's key set
MismatchedBatch ==
    obj = "insert" /\ ins_config # None /\ ~HasUnknownColumn /\ HasMismatchedRow

\* the position in the batch (from 0) of the first row whose key set differs
FirstMismatch ==
    CHOOSE r \in 1..(Len(InsertRows) - 1) :
        /\ Keys(InsertRows[r + 1]) # Keys(InsertRows[1])
        /\ \A k \in 1..(r - 1) : Keys(InsertRows[k + 1]) = Keys(InsertRows[1])

\* the column names a message names
NamedColumns(msg) == {msg[k] : k \in 1..Len(msg)} \cap {KeyOrder[k] : k \in 1..Len(KeyOrder)}

\* the symmetric difference of two sets
SymmetricDifference(A, B) == (A \ B) \cup (B \ A)

\* C10: for a batch of known columns with a mismatched row, get_sql raises a
\* QueryError that names the index of the first mismatched row and the
\* symmetric difference of the expected and the actual column names
C10_NamesSymmetricDifference ==
    MismatchedBatch =>
        \A i \in 1..Len(returned) :
            /\ returned[i].kind = "QueryError"
            /\ Contains(returned[i].msg, <<"Row ", ToString(FirstMismatch)>>)
            /\ NamedColumns(returned[i].msg)
                 = SymmetricDifference(Keys(InsertRows[1]), Keys(InsertRows[FirstMismatch + 1]))

\* C10 as amended: the QueryError names the index of the first mismatched row
\* and lists, sorted, the first row's column names as expected and that
\* row's column names as got
C10_NamesExpectedAndGot ==
    MismatchedBatch =>
        \A i \in 1..Len(returned) :
            /\ returned[i].kind = "QueryError"
            /\ Contains(returned[i].msg, <<"Row ", ToString(FirstMismatch)>>)
            /\ EndsWith(returned[i].msg,
                        <<"Expected: ">> \o sorted(Keys(InsertRows[1])) \o <<", got: ">>
                            \o sorted(Keys(InsertRows[FirstMismatch + 1])))

C10_Witness ==
    /\ MismatchedBatch
    /\ Len(InsertRows) = 3
    /\ Keys(InsertRows[2]) = Keys(InsertRows[1])
    /\ Keys(InsertRows[3]) # Keys(InsertRows[1])
    /\ Len(returned) = 1
    /\ Contains(returned[1].msg, <<"Row ", "2">>)

\* the column names of an ordered mapping, first inserted first
InsertionOrder(row) == [i \in 1..Len(row) |-> row[i][1]]

\* the value an ordered mapping holds under key k
ValueOf(row, k) == row[CHOOSE i \in 1..Len(row) : row[i][1] = k][2]

\* the table's column of attribute name k
ColumnOf(tbl, k) ==
    TableColumns(tbl)[CHOOSE i \in 1..Len(TableColumns(tbl)) : TableColumns(tbl)[i][1] = k][2]

\* C11: a batch in which a row after the first both differs from the first
\* row's key set and names an unknown column is reported by get_sql as an
\* unknown column, never as a key-set mismatch
C11_UnknownColumnBeforeMismatch ==
    (/\ obj = "insert"
     /\ \E r \in 2..Len(InsertRows) :
           /\ Keys(InsertRows[r]) # Keys(InsertRows[1])
           /\ ~(Keys(InsertRows[r]) \subseteq Keys(TableColumns(table))))
    => \A i \in 1..Len(returned) :
          /\ returned[i].kind = "QueryError"
          /\ \E name \in UnknownColumns : Contains(returned[i].msg, <<"Column '", name>>)
          /\ ~Contains(returned[i].msg, <<" has different columns than first row. ">>)

C11_Witness ==
    /\ obj = "insert"
    /\ Len(InsertRows) = 3
    /\ Keys(InsertRows[1]) = {"title", "meta"}
    /\ Keys(InsertRows[2]) = {"title"}
    /\ Keys(InsertRows[3]) = {"title", "nope"}
    /\ Len(returned) = 1
    /\ Contains(returned[1].msg, <<"Column '", "nope">>)

\* the column names between the first parentheses of an INSERT statement
ColumnList(sql) ==
    LET close == CHOOSE p \in 1..Len(sql) : sql[p] = ")" /\ \A q \in 1..(p - 1) : sql[q] # ")"
    IN  SelectSeq(SubSeq(sql, 4, close - 1), LAMBDA tok : tok # ", ")

\* C12: a rendered INSERT lists the columns in the first row's insertion
\* order and binds every row's values in that column order, whatever the
\* insertion order of the row's own keys
C12_FirstRowColumnOrder ==
    obj = "insert" =>
        \A i \in 1..Len(returned) :
            returned[i].kind = "ok" =>
                /\ ColumnList(returned[i].sql) = InsertionOrder(InsertRows[1])
                /\ Len(returned[i].params) = Len(InsertRows) * Len(InsertRows[1])
                /\ \A r \in 1..Len(InsertRows) : \A c \in 1..Len(InsertRows[1]) :
                      LET k == InsertionOrder(InsertRows[1])[c]
                      IN  returned[i].params[(r - 1) * Len(InsertRows[1]) + c]
                            \in {ValueOf(InsertRows[r], k), "json:" \o ValueOf(InsertRows[r], k)}

C12_Witness ==
    /\ obj = "insert"
    /\ Len(InsertRows) = 2
    /\ InsertionOrder(InsertRows[1]) = <<"title", "meta">>
    /\ InsertionOrder(InsertRows[2]) = <<"meta", "title">>
    /\ Len(returned) = 1
    /\ returned[1].kind = "ok"
    /\ ColumnList(returned[1].sql) = <<"title", "meta">>
    /\ returned[1].params[4] = "None"

\* what the serialization mixin of a column makes of a value: JSON text for
\* a JSON column's value other than None, the value itself otherwise
SerializedForm(column, value) ==
    IF column.ser = "json" /\ value # "None" THEN "json:" \o value ELSE value

\* C13: every parameter of a rendered INSERT is the value of its row under
\* its column's name, passed through that column's serialize
C13_ParametersSerialized ==
    obj = "insert" =>
        \A i \in 1..Len(returned) :
            returned[i].kind = "ok" =>
                /\ Len(returned[i].params) = Len(InsertRows) * Len(InsertRows[1])
                /\ \A r \in 1..Len(InsertRows) : \A c \in 1..Len(InsertRows[1]) :
                      LET k == InsertionOrder(InsertRows[1])[c]
                      IN  returned[i].params[(r - 1) * Len(InsertRows[1]) + c]
                            = SerializedForm(ColumnOf(table, k), ValueOf(InsertRows[r], k))

C13_Witness ==
    /\ obj = "insert"
    /\ table = "posts"
    /\ Len(returned) = 1
    /\ returned[1].kind = "ok"
    /\ returned[1].params = <<"v1", "json:v2">>

\* C14: an insert's execute that succeeds reports the number of rows, whether
\* the values were a batch, and as last_insert_id the identifier the driver
\* exposed for the statement, null when it exposed none
C14_ReportsDriverIdentifier ==
    (obj = "insert" /\ executed # None) =>
        (executed[1].result.kind = "ok" =>
            /\ executed[1].result.value.rows_affected = Len(InsertRows)
            /\ executed[1].result.value.is_bulk = ins_config[1].is_list
            /\ executed[1].result.value.last_insert_id = ConnCalls[1].outcome.lastrowid)

\* the last call, when it was a call of the schema function op that returned
GeneratedText(op) ==
    generated # None /\ generated[1].op = op /\ generated[1].result.kind = "ok"

\* the constraint tokens of a column definition in the claimed order
ConstraintRank(tok) ==
    CASE tok = "PRIMARY KEY" -> 1
      [] tok = "NOT NULL" -> 2
      [] tok = "UNIQUE" -> 3
      [] tok \in {"DEFAULT '", "DEFAULT "} -> 4
      [] OTHER -> 0

\* C16: generate_column_sql renders the name and the type, then PRIMARY KEY
\* for a primary key, NOT NULL for a column that is not nullable, UNIQUE for
\* a unique column that is no primary key and DEFAULT with its literal for a
\* column with a default, in that order, whatever calls configured the column
C16_ColumnDefinitionOrder ==
    (obj = "schema" /\ GeneratedText("generate_column_sql")) =>
        LET column == tabledef[generated[1].arg]
            text == generated[1].result.text
            Has(toks) == \E p \in 1..Len(text) : text[p] \in toks
        IN  /\ SubSeq(text, 1, 3) = <<column.col_name, " ", column.sql_type>>
            /\ Has({"PRIMARY KEY"}) = column.is_primary_key
            /\ Has({"NOT NULL"}) = ~column.is_nullable
            /\ Has({"UNIQUE"}) = (column.is_unique /\ ~column.is_primary_key)
            /\ Has({"DEFAULT '", "DEFAULT "}) = (column.default_value # None)
            /\ \A p, q \in 4..Len(text) :
                  (p < q /\ ConstraintRank(text[p]) > 0 /\ ConstraintRank(text[q]) > 0)
                      => ConstraintRank(text[p]) < ConstraintRank(text[q])

C16_Witness ==
    /\ obj = "schema"
    /\ table = "orders"
    /\ GeneratedText("generate_column_sql")
    /\ generated[1].arg = 1
    /\ tabledef[1].is_primary_key /\ tabledef[1].is_unique /\ ~tabledef[1].is_nullable
    /\ generated[1].result.text
         = <<"id", " ", "INTEGER", " ", "PRIMARY KEY", " ", "NOT NULL">>

\* the positions at which an element of a CREATE TABLE statement starts
ElementStarts(text) == {p \in 1..Len(text) : text[p] = "  "}

\* the element that starts at p, up to the separator or the closing line
ElementAt(text, p) ==
    LET stop == CHOOSE q \in (p + 1)..Len(text) :
                    /\ text[q] \in {",\n", "\n)"}
                    /\ \A r \in (p + 1)..(q - 1) : text[r] \notin {",\n", "\n)"}
    IN  SubSeq(text, p + 1, stop - 1)

\* the elements of a CREATE TABLE statement, first to last
Elements(text) ==
    LET starts == ElementStarts(text)
        nth(k) == CHOOSE p \in starts : Cardinality({q \in starts : q < p}) = k - 1
    IN  [k \in 1..Cardinality(starts) |-> ElementAt(text, nth(k))]

\* the columns of the table that reference a column, in declaration order
Referencing(cols) == SelectSeq(cols, LAMBDA c : c._references # None)

\* C17: generate_create_table_sql renders one definition for every column in
\* declaration order and after them one FOREIGN KEY constraint for every
\* column with a reference, with ON DELETE exactly when on_delete was given
\* and ON UPDATE exactly when on_update was given
C17_CreateTableElements ==
    (obj = "schema" /\ GeneratedText("generate_create_table_sql")) =>
        LET els == Elements(generated[1].result.text)
            n == Len(tabledef)
            refs == Referencing(tabledef)
        IN  /\ Len(els) = n + Len(refs)
            /\ \A i \in 1..n : els[i] = generate_column_sql(tabledef[i], dialect).text
            /\ \A k \in 1..Len(refs) :
                  /\ SubSeq(els[n + k], 1, 2) = <<"FOREIGN KEY (", refs[k].col_name>>
                  /\ Contains(els[n + k], <<" ON DELETE ">>) = (refs[k]._on_delete # None)
                  /\ Contains(els[n + k], <<" ON UPDATE ">>) = (refs[k]._on_update # None)
                  /\ refs[k]._on_delete # None
                        => Contains(els[n + k], <<" ON DELETE ", refs[k]._on_delete[1]>>)
                  /\ refs[k]._on_update # None
                        => Contains(els[n + k], <<" ON UPDATE ", refs[k]._on_update[1]>>)

C17_Witness ==
    /\ obj = "schema"
    /\ table = "orders"
    /\ GeneratedText("generate_create_table_sql")
    /\ tabledef[1]._references # None /\ tabledef[1]._on_delete = None
    /\ tabledef[2]._references # None /\ tabledef[2]._on_delete = Some("CASCADE")
    /\ Len(Elements(generated[1].result.text)) = 4
    /\ Contains(generated[1].result.text, <<" ON DELETE ", "CASCADE">>)

\* C18: schema generation for a table one of whose columns references a
\* column that belongs to no table raises and returns no SQL
C18_UnregisteredReferenceRaises ==
    (/\ obj = "schema"
     /\ generated # None
     /\ generated[1].op = "generate_create_table_sql"
     /\ \E i \in 1..Len(tabledef) :
           /\ tabledef[i]._references # None
           /\ tabledef[i]._references[1]._table_cls = None)
    => /\ generated[1].result.kind = "ValueError"
       /\ generated[1].result.text = <<>>

C18_Witness ==
    /\ obj = "schema"
    /\ table = "orders"
    /\ generated # None
    /\ generated[1].op = "generate_create_table_sql"
    /\ tabledef[2]._references # None
    /\ tabledef[2]._references[1]._table_cls = None
    /\ generated[1].result.msg = <<"Referenced column does not have a table class">>

\* the table names the claim gives or implies for the declared class names
SnakeCase(name) ==
    CASE name = UserTable -> <<"u", "s", "e", "r">>
      [] name = BlogPost -> <<"b", "l", "o", "g", "_", "p", "o", "s", "t">>
      [] name = Vegetable -> <<"v", "e", "g", "e", "t", "a", "b", "l", "e">>

\* the __tablename__ entries of a class body
Overrides(namespace) ==
    {namespace[i][2].text : i \in {j \in 1..Len(namespace) : namespace[j][1] = "__tablename__"}}

\* C19: a registered table is named by its __tablename__ when the class body
\* has one, and otherwise by its class name in snake case without a final
\* _table
C19_TableName ==
    obj = "tables" =>
        \A n \in 1..Len(registry) :
            IF Overrides(registry[n].namespace) # {}
            THEN registry[n]._table_name \in {Some(o) : o \in Overrides(registry[n].namespace)}
            ELSE registry[n]._table_name = Some(SnakeCase(registry[n].name))

C19_Witness ==
    /\ obj = "tables"
    /\ Len(registry) = 2
    /\ registry[1].name = Vegetable /\ registry[1]._table_name = Some(<<"v", "e", "g", "e", "t", "a", "b", "l", "e">>)
    /\ registry[2].name = UserTable /\ registry[2]._table_name = Some(People)

\* the entries of a class body that bind a column object, in body order
DeclaredColumns(namespace) ==
    SelectSeq(namespace, LAMBDA item : item[2].t = "column")

\* C20: the class just registered maps exactly the attributes of its body
\* that are bound to column objects, in body order, and each of these columns
\* refers back to the class, its qualified name being <table name>.<column name>
C20_ColumnMap ==
    (obj = "tables" /\ registry # <<>>) =>
        LET n == Len(registry)
            cls == registry[n]
            declared == DeclaredColumns(cls.namespace)
        IN  /\ Len(cls._columns) = Len(declared)
            /\ \A i \in 1..Len(declared) :
                  /\ cls._columns[i] = <<declared[i][1], declared[i][2].id>>
                  /\ instances[declared[i][2].id]._table_cls = Some(n)
                  /\ QualifiedName(instances[declared[i][2].id], registry)
                        = cls._table_name[1]
                            \o <<".", instances[declared[i][2].id].col_name>>

C20_Witness ==
    /\ obj = "tables"
    /\ Len(registry) = 1
    /\ registry[1].name = BlogPost
    /\ registry[1]._columns = << <<"mail", "c2">>, <<"key", "c1">> >>
    /\ QualifiedName(instances["c1"], registry)
         = <<"b", "l", "o", "g", "_", "p", "o", "s", "t", ".", "id">>

\* C21: a column object belongs to the one table it was first registered
\* with: every column of every registered class refers back to that class, and
\* its qualified name carries that class's table name
C21_ColumnBelongsToOneTable ==
    obj = "tables" =>
        \A n \in 1..Len(registry) : \A i \in 1..Len(registry[n]._columns) :
            LET column == instances[registry[n]._columns[i][2]]
            IN  /\ column._table_cls = Some(n)
                /\ QualifiedName(column, registry)
                     = registry[n]._table_name[1] \o <<".", column.col_name>>

\* the last call, when it was the function fn applied on its own
Applied(fn) == obj = "functions" /\ probe # None /\ probe[1].fn = fn

JsonFaithful(value) == value # PyValue("list", "[(1, 2)]")

RECURSIVE Operand(_, _, _)
\* an operand as the text it stands for when n literals precede it: the
\* placeholder of the next parameter for a literal, table.column for a
\* column, the parenthesised form for a nested expression
Operand(x, d, n) ==
    IF x.t = "lit" THEN <<PlaceholderAt(d, n + 1)>>
    ELSE IF x.t = "col" THEN <<x.table[1] \o "." \o x.col_name>>
    ELSE <<"(">> \o Operand(x.left, d, n) \o <<" ", x.operator, " ">>
         \o Operand(x.right, d, n + Len(Literals(x.left))) \o <<")">>

\* C23: a binary expression renders as "(" left " " op " " right ")" with
\* the left operand before the right: each literal, None included, is
\* appended to the collector in that order and replaced by its placeholder, a
\* column renders as table.column and adds no parameter, and a nested
\* expression recurses; users.age > v1 under postgresql is (users.age > $1)
\* with the one parameter v1
C23_BinaryExpressionRendering ==
    (Applied("to_sql") /\ probe[1].arg.t = "bin") =>
        /\ probe[1].result.kind = "ok"
        /\ probe[1].result.sql = Operand(probe[1].arg, dialect, 0)
        /\ probe[1].result.params = Literals(probe[1].arg)
        /\ (probe[1].arg = AgeGt /\ dialect = "postgresql") =>
              /\ probe[1].result.sql = <<"(", "users.age", " ", ">", " ", "$1", ")">>
              /\ probe[1].result.params = <<"v1">>

\* a nested expression with a literal on each side and one with None has
\* been rendered under postgresql
C23_Witness ==
    /\ Applied("to_sql")
    /\ dialect = "postgresql"
    /\ probe[1].arg = BinaryExpression(Lit("v1"), "<", AgePlus)
    /\ probe[1].result.sql
         = <<"(", "$1", " ", "<", " ", "(", "users.age", " ", "+", " ", "$2", ")", ")">>
    /\ probe[1].result.params = <<"v1", "v2">>

\* C24: the exponentiation of an Integer column by a literal renders as a
\* call of the power function under sqlite and as the infix operator under
\* postgresql, whichever module's column class built the node
C24_RewriteKeyedOnDialect ==
    Applied("__pow__") =>
        /\ probe[1].result.kind = "ok"
        /\ dialect = "sqlite"
              => probe[1].result.sql = <<"power", "(", "users.age", ", ", "?", ")">>
        /\ dialect = "postgresql"
              => probe[1].result.sql = <<"(", "users.age", " ", "^", " ", "$1", ")">>

RECURSIVE Joined(_)
\* the text a sequence of pieces stands for
Joined(pieces) == IF pieces = <<>> THEN "" ELSE Head(pieces) \o Joined(Tail(pieces))

\* C25: a function expression renders as name(arg1, arg2, ...) with its
\* arguments in order and as name() without arguments, and count_distinct on
\* a column renders COUNT(DISTINCT table.column)
C25_FunctionExpressionRendering ==
    /\ (Applied("to_sql") /\ probe[1].arg.t = "fn") =>
          /\ probe[1].result.kind = "ok"
          /\ Joined(probe[1].result.sql)
               = probe[1].arg.function_name \o "("
                 \o Joined(JoinWith(", ", [i \in 1..Len(probe[1].arg.args) |->
                                              Operand(probe[1].arg.args[i], dialect, 0)]))
                 \o ")"
    /\ Applied("count_distinct") =>
          /\ probe[1].result.kind = "ok"
          /\ Joined(probe[1].result.sql) = "COUNT(DISTINCT users.age)"

\* the (type, dialect) pairs with a SQL type
Supported(cls, d) == d \in {"sqlite", "postgresql"} /\ ~(cls = "Serial" /\ d = "sqlite")

\* C26: a placeholder asked for a dialect outside sqlite and postgresql, and
\* a column SQL type asked for an unsupported (type, dialect) pair, raise
\* DialectNotSupportedError with the dialect in the message and, for a
\* column type, the name of the type; no placeholder or type is returned
C26_UnsupportedRaises ==
    /\ (Applied("get_placeholder") /\ probe[1].arg.dialect \notin {"sqlite", "postgresql"}) =>
          /\ probe[1].result.kind = "DialectNotSupportedError"
          /\ probe[1].result.text = <<>>
          /\ Contains(probe[1].result.msg, <<probe[1].arg.dialect>>)
    /\ (Applied("_get_sql_type") /\ ~Supported(probe[1].arg.cls, probe[1].arg.dialect)) =>
          /\ probe[1].result.kind = "DialectNotSupportedError"
          /\ probe[1].result.text = <<>>
          /\ Contains(probe[1].result.msg, <<probe[1].arg.dialect>>)
          /\ Contains(probe[1].result.msg, <<probe[1].arg.cls>>)

\* the SQL type of a Serial column has been asked for sqlite
C26_Witness ==
    /\ Applied("_get_sql_type")
    /\ probe[1].arg = [dialect |-> "sqlite", cls |-> "Serial"]
    /\ Joined(probe[1].result.msg)
         = "Dialect sqlite is not supported: Column type Serial is not supported"

\* the result of the accessor op is recorded
Accessed(op) == obj = "schema" /\ generated # None /\ generated[1].op = op

\* the columns of the map that occur in list, in declaration order
Among(list) == SelectSeq(tabledef, LAMBDA c : \E i \in 1..Len(list) : list[i] = c)

\* required and optional split the column map: no column in both, every
\* column in one, each list in declaration order
Partition(required, optional) ==
    /\ \A i \in 1..Len(required) : \A j \in 1..Len(optional) : required[i] # optional[j]
    /\ Len(required) + Len(optional) = Len(tabledef)
    /\ \A i \in 1..Len(tabledef) :
          \/ \E j \in 1..Len(required) : required[j] = tabledef[i]
          \/ \E j \in 1..Len(optional) : optional[j] = tabledef[i]
    /\ required = Among(required)
    /\ optional = Among(optional)

\* a step that calls one of the accessors
AccessorStep ==
    /\ generated' # None
    /\ generated'[1].op \in {"get_required_columns", "get_optional_columns"}

\* C27: after any sequence of not_null and nullable calls the lists of
\* get_required_columns and get_optional_columns are disjoint and together
\* hold every column of the map once, in declaration order, and a call of
\* an accessor leaves the map and every column as they were
C27_AccessorsPartitionTheMap ==
    /\ [](Accessed("get_required_columns")
            => Partition(generated[1].result, get_optional_columns(tabledef)))
    /\ [](Accessed("get_optional_columns")
            => Partition(get_required_columns(tabledef), generated[1].result))
    /\ [][(obj = "schema" /\ AccessorStep) => tabledef' = tabledef]_vars

\* the required columns have been asked for after not_null on one of two
\* columns: one column is required, the other optional
C27_Witness ==
    /\ Accessed("get_required_columns")
    /\ Len(tabledef) = 2
    /\ Len(generated[1].result) = 1
    /\ generated[1].result[1].is_nullable = FALSE
    /\ Len(get_optional_columns(tabledef)) = 1

\* C28: for every argument values() accepted, an empty list of rows
\* included, get_sql returns (sql, params) or raises QueryError, and no other
\* kind of error
C28_GetSqlReturnsOrQueryError ==
    (obj = "insert" /\ ins_config # None) =>
        \A i \in 1..Len(returned) : returned[i].kind \in {"ok", "QueryError"}

C30_NoEmptyGroupOrOrderList ==
    obj = "select" =>
        \A i \in 1..Len(returned) :
            returned[i].kind = "ok" =>
                \A p \in 1..Len(returned[i].sql) :
                    returned[i].sql[p] \in {"GROUP BY", "ORDER BY"} =>
                        /\ p < Len(returned[i].sql)
                        /\ returned[i].sql[p + 1] \notin ClauseKeywords

====
